---------------------------- MODULE Spec2Model ----------------------------
(***************************************************************************)
(* A model of sbsearch: the SQLite schema of schema.py (tables, R-tree      *)
(* index tables and BEFORE DELETE triggers) as a state machine over the     *)
(* rows of the six tables, and the spherical-geometry functions of util.py  *)
(* as operators over exact numbers.                                         *)
(***************************************************************************)
EXTENDS Integers, Sequences, FiniteSets, TLC

(***************************************************************************)
(* Bounds of the database model: the keys that rows may take.               *)
(***************************************************************************)
MaxEph == 2
\* How many tables may be missing at once (DROP TABLE is guarded by it).
MaxMissing == 1

EphIds == 1..MaxEph
\* Two objects, one observation and one found record: the parents and the
\* child that the triggers act on.
ObjIds == {1, 2}
ObsIds == {1}
FoundIds == {1}
\* The payload of an index row (mjd0, mjd1, x0, ..., z1), abstracted to a tag.
Boxes == {"boxA", "boxB"}

VARIABLES
    tables,        \* names of the tables present in sqlite_master
    triggers,      \* names of the triggers present in sqlite_master
    obj,           \* rows of obj: the objid of each row
    eph,           \* rows of eph: [ephid, objid]
    eph_tree,      \* rows of eph_tree: [ephid, box]
    obs,           \* rows of {obs_table}: the obsid of each row
    obs_tree,      \* rows of {obs_table}_tree: [obsid, box]
    obs_found,     \* rows of {obs_table}_found: [foundid, objid, obsid]
    foreign_keys,  \* PRAGMA foreign_keys of the connection
    last,          \* the last statement: [op, ok, n]
    call           \* a call of a util.py function: [fn, args, ret, done]

dbvars == <<tables, triggers, obj, eph, eph_tree, obs, obs_tree, obs_found>>
vars == <<tables, triggers, obj, eph, eph_tree, obs, obs_tree, obs_found,
          foreign_keys, last, call>>

(***************************************************************************)
(* schema.py: the structures that create() declares.                        *)
(***************************************************************************)
AllTables == {"obj", "eph", "eph_tree", "obs", "obs_tree", "obs_found"}

\* Each trigger with the table it is declared ON.
TriggerTable ==
    [delete_eph_from_tree |-> "eph",
     delete_object_from_eph |-> "obj",
     delete_obs_from_obs_tree |-> "obs",
     delete_obs_from_obs_found |-> "obs",
     delete_obj_from_obs_found |-> "obs"]

AllTriggers == DOMAIN TriggerTable

\* The table a trigger's body deletes from.
TriggerTarget ==
    [delete_eph_from_tree |-> "eph_tree",
     delete_object_from_eph |-> "eph",
     delete_obs_from_obs_tree |-> "obs_tree",
     delete_obs_from_obs_found |-> "obs_found",
     delete_obj_from_obs_found |-> "obs_found"]

Fires(trg) == trg \in triggers

(***************************************************************************)
(* Trigger bodies. Each takes the rows of the table it deletes from and the *)
(* key of the row being deleted (old.ephid, old.objid, old.obsid).          *)
(***************************************************************************)
\* The trigger missing: the index row stays.
delete_eph_from_tree_mut(tree, old_ephid) == tree

delete_eph_from_tree(tree, old_ephid) ==
    {r \in tree : r.ephid # old_ephid}

\* The trigger with the wrong column in its WHERE clause (ephid=old.objid).
delete_object_from_eph_mut(rows, old_objid) ==
    {r \in rows : r.ephid = old_objid}

\* The eph rows that DELETE FROM eph WHERE objid=old.objid removes.
delete_object_from_eph(rows, old_objid) ==
    {r \in rows : r.objid = old_objid}

delete_obs_from_obs_tree(tree, old_obsid) ==
    {r \in tree : r.obsid # old_obsid}

delete_obs_from_obs_found(found, old_obsid) ==
    {r \in found : r.obsid # old_obsid}

\* Declared ON {obs_table}, with the same body as delete_obs_from_obs_found:
\* it deletes by obsid, and no trigger on obj touches {obs_table}_found.
delete_obj_from_obs_found(found, old_obsid) ==
    {r \in found : r.obsid # old_obsid}

(***************************************************************************)
(* DELETE FROM eph of the rows `gone`: delete_eph_from_tree runs before     *)
(* each row is removed. The result is the new <<eph, eph_tree>>.            *)
(***************************************************************************)
RECURSIVE TreeAfter(_, _)
TreeAfter(tree, gone) ==
    IF gone = {} THEN tree
    ELSE LET r == CHOOSE x \in gone : TRUE
         IN  TreeAfter(delete_eph_from_tree(tree, r.ephid), gone \ {r})

DeleteFromEph(gone) ==
    <<eph \ gone,
      IF Fires("delete_eph_from_tree") THEN TreeAfter(eph_tree, gone)
      ELSE eph_tree>>

\* A statement fails when a trigger that fires names a table that is gone.
TriggersRunnable(tbl) ==
    \A trg \in triggers :
        TriggerTable[trg] = tbl => TriggerTarget[trg] \in tables

\* A nested DELETE FROM eph fires eph's own trigger, which needs eph_tree.
NestedRunnable ==
    (Fires("delete_object_from_eph") /\ Fires("delete_eph_from_tree"))
        => "eph_tree" \in tables

\* The last statement: whether it succeeded, and how many index rows its
\* triggers removed (for create: how many tables it added).
Stmt(op, ok, n) == [op |-> op, ok |-> ok, n |-> n]

NoCall == [fn |-> "none", args |-> <<>>, ret |-> <<>>, done |-> FALSE]

(***************************************************************************)
(* The state after create() on a fresh connection.                          *)
(***************************************************************************)
InitTables ==
    /\ tables = AllTables
    /\ triggers = AllTriggers
    /\ obj = {}
    /\ eph = {}
    /\ eph_tree = {}
    /\ obs = {}
    /\ obs_tree = {}
    /\ obs_found = {}
    /\ foreign_keys \in BOOLEAN
    /\ last = Stmt("create", TRUE, 6)

InitDB ==
    /\ InitTables
    /\ call = NoCall


(***************************************************************************)
(* INSERT statements. A PRIMARY KEY that is already present rejects the     *)
(* row; callers insert child rows for parents they have resolved.           *)
(***************************************************************************)
HasKey(rows, field, k) == \E r \in rows : r[field] = k

\* INSERT INTO obj
InsertObj(o) ==
    /\ "obj" \in tables
    /\ o \notin obj
    /\ obj' = obj \cup {o}
    /\ last' = Stmt("insert_obj", TRUE, 0)
    /\ UNCHANGED <<tables, triggers, eph, eph_tree, obs, obs_tree, obs_found,
                   foreign_keys, call>>

\* INSERT INTO eph: a point of object o
InsertEph(e, o) ==
    /\ "eph" \in tables
    /\ o \in obj
    /\ ~HasKey(eph, "ephid", e)
    /\ eph' = eph \cup {[ephid |-> e, objid |-> o]}
    /\ last' = Stmt("insert_eph", TRUE, 0)
    /\ UNCHANGED <<tables, triggers, obj, eph_tree, obs, obs_tree, obs_found,
                   foreign_keys, call>>

\* The index without its primary key: every row is accepted.
eph_tree_insert_mut(tree, e, b) == tree \cup {[ephid |-> e, box |-> b]}

\* INSERT INTO eph_tree: ephid is the R-tree's INTEGER PRIMARY KEY
eph_tree_insert(tree, e, b) ==
    IF HasKey(tree, "ephid", e) THEN tree
    ELSE tree \cup {[ephid |-> e, box |-> b]}

\* INSERT INTO {obs_table}_tree: obsid is the R-tree's INTEGER PRIMARY KEY
obs_tree_insert(tree, s, b) ==
    IF HasKey(tree, "obsid", s) THEN tree
    ELSE tree \cup {[obsid |-> s, box |-> b]}

\* The box of an existing point is inserted into the index.
InsertEphBox(e, b) ==
    /\ "eph_tree" \in tables
    /\ HasKey(eph, "ephid", e)
    /\ eph_tree' = eph_tree_insert(eph_tree, e, b)
    /\ last' = Stmt("insert_eph_tree", ~HasKey(eph_tree, "ephid", e), 0)
    /\ UNCHANGED <<tables, triggers, obj, eph, obs, obs_tree, obs_found,
                   foreign_keys, call>>

\* An observation is inserted together with its box; a stale index row with
\* the same obsid fails the pair.
InsertObs(s, b) ==
    /\ {"obs", "obs_tree"} \subseteq tables
    /\ s \notin obs
    /\ IF HasKey(obs_tree, "obsid", s)
       THEN /\ last' = Stmt("insert_obs", FALSE, 0)
            /\ UNCHANGED <<obs, obs_tree>>
       ELSE /\ obs' = obs \cup {s}
            /\ obs_tree' = obs_tree_insert(obs_tree, s, b)
            /\ last' = Stmt("insert_obs", TRUE, 0)
    /\ UNCHANGED <<tables, triggers, obj, eph, eph_tree, obs_found,
                   foreign_keys, call>>

\* A further box for an observation that is present.
InsertObsBox(s, b) ==
    /\ "obs_tree" \in tables
    /\ s \in obs
    /\ obs_tree' = obs_tree_insert(obs_tree, s, b)
    /\ last' = Stmt("insert_obs_tree", ~HasKey(obs_tree, "obsid", s), 0)
    /\ UNCHANGED <<tables, triggers, obj, eph, eph_tree, obs, obs_found,
                   foreign_keys, call>>

\* INSERT INTO {obs_table}_found: object o was found in observation s
InsertFound(f, o, s) ==
    /\ "obs_found" \in tables
    /\ o \in obj
    /\ s \in obs
    /\ ~HasKey(obs_found, "foundid", f)
    /\ obs_found' = obs_found \cup {[foundid |-> f, objid |-> o, obsid |-> s]}
    /\ last' = Stmt("insert_found", TRUE, 0)
    /\ UNCHANGED <<tables, triggers, obj, eph, eph_tree, obs, obs_tree,
                   foreign_keys, call>>

(***************************************************************************)
(* DELETE statements. The BEFORE DELETE triggers of the table run first;    *)
(* with PRAGMA foreign_keys on, a row that is still referenced when the     *)
(* statement ends fails the statement, which then changes nothing.          *)
(***************************************************************************)
\* DELETE FROM eph WHERE ...: the rows `gone`
DeleteEph(gone) ==
    /\ "eph" \in tables
    /\ gone # {}
    /\ gone \subseteq eph
    /\ LET after == DeleteFromEph(gone)
           ok == TriggersRunnable("eph")
       IN  IF ok
           THEN /\ eph' = after[1]
                /\ eph_tree' = after[2]
                /\ last' = Stmt("delete_eph", TRUE,
                                Cardinality(eph_tree \ after[2]))
           ELSE /\ last' = Stmt("delete_eph", FALSE, 0)
                /\ UNCHANGED <<eph, eph_tree>>
    /\ UNCHANGED <<tables, triggers, obj, obs, obs_tree, obs_found,
                   foreign_keys, call>>

\* DELETE FROM obj WHERE objid=o
DeleteObj(o) ==
    /\ "obj" \in tables
    /\ o \in obj
    /\ LET gone == IF Fires("delete_object_from_eph")
                   THEN delete_object_from_eph(eph, o) ELSE {}
           after == DeleteFromEph(gone)
           referenced == \/ HasKey(after[1], "objid", o)
                         \/ HasKey(obs_found, "objid", o)
           ok == /\ TriggersRunnable("obj")
                 /\ NestedRunnable
                 /\ ~(foreign_keys /\ referenced)
       IN  IF ok
           THEN /\ obj' = obj \ {o}
                /\ eph' = after[1]
                /\ eph_tree' = after[2]
                /\ last' = Stmt("delete_obj", TRUE,
                                Cardinality(eph_tree \ after[2]))
           ELSE /\ last' = Stmt("delete_obj", FALSE, 0)
                /\ UNCHANGED <<obj, eph, eph_tree>>
    /\ UNCHANGED <<tables, triggers, obs, obs_tree, obs_found,
                   foreign_keys, call>>

\* DELETE FROM {obs_table} WHERE obsid=s
DeleteObs(s) ==
    /\ "obs" \in tables
    /\ s \in obs
    /\ LET tree1 == IF Fires("delete_obs_from_obs_tree")
                    THEN delete_obs_from_obs_tree(obs_tree, s) ELSE obs_tree
           found1 == IF Fires("delete_obs_from_obs_found")
                     THEN delete_obs_from_obs_found(obs_found, s)
                     ELSE obs_found
           found2 == IF Fires("delete_obj_from_obs_found")
                     THEN delete_obj_from_obs_found(found1, s) ELSE found1
           ok == /\ TriggersRunnable("obs")
                 /\ ~(foreign_keys /\ HasKey(found2, "obsid", s))
       IN  IF ok
           THEN /\ obs' = obs \ {s}
                /\ obs_tree' = tree1
                /\ obs_found' = found2
                /\ last' = Stmt("delete_obs", TRUE,
                                Cardinality(obs_tree \ tree1))
           ELSE /\ last' = Stmt("delete_obs", FALSE, 0)
                /\ UNCHANGED <<obs, obs_tree, obs_found>>
    /\ UNCHANGED <<tables, triggers, obj, eph, eph_tree,
                   foreign_keys, call>>

(***************************************************************************)
(* create(): every statement is CREATE ... IF NOT EXISTS.                   *)
(***************************************************************************)
DB == [tables |-> tables, triggers |-> triggers,
       rows |-> [obj |-> obj, eph |-> eph, eph_tree |-> eph_tree, obs |-> obs,
                 obs_tree |-> obs_tree, obs_found |-> obs_found]]

\* CREATE TABLE / CREATE TRIGGER without IF NOT EXISTS: the script stops at
\* its first statement whose table exists, "obj" first.
create_mut(db) ==
    IF "obj" \in db.tables THEN db
    ELSE [tables |-> AllTables, triggers |-> AllTriggers,
          rows |-> [t \in AllTables |->
                       IF t \in db.tables THEN db.rows[t] ELSE {}]]

\* db.executescript(schema): a structure that exists is left as it is with
\* its rows, and one that is missing is created empty.
create(db) ==
    [tables |-> db.tables \cup AllTables,
     triggers |-> db.triggers \cup AllTriggers,
     rows |-> [t \in AllTables |-> IF t \in db.tables THEN db.rows[t] ELSE {}]]

CreateSchema ==
    /\ LET new == create(DB)
       IN  /\ tables' = new.tables
           /\ triggers' = new.triggers
           /\ obj' = new.rows["obj"]
           /\ eph' = new.rows["eph"]
           /\ eph_tree' = new.rows["eph_tree"]
           /\ obs' = new.rows["obs"]
           /\ obs_tree' = new.rows["obs_tree"]
           /\ obs_found' = new.rows["obs_found"]
    /\ last' = Stmt("create", TRUE, Cardinality(AllTables \ tables))
    /\ UNCHANGED <<foreign_keys, call>>

(***************************************************************************)
(* DROP TABLE t, as test_verify_tables issues it: the table goes with its   *)
(* rows and the triggers declared on it; no trigger fires. With foreign     *)
(* keys on, the implicit DELETE fails while a child row references t.       *)
(***************************************************************************)
DropTable(t) ==
    /\ t \in tables
    /\ Cardinality(AllTables \ tables) < MaxMissing
    /\ LET referenced ==
               \/ t = "obj" /\ \E o \in obj : \/ HasKey(eph, "objid", o)
                                              \/ HasKey(obs_found, "objid", o)
               \/ t = "obs" /\ \E s \in obs : HasKey(obs_found, "obsid", s)
           ok == ~(foreign_keys /\ referenced)
       IN  IF ok
           THEN /\ tables' = tables \ {t}
                /\ triggers' = {trg \in triggers : TriggerTable[trg] # t}
                /\ obj' = IF t = "obj" THEN {} ELSE obj
                /\ eph' = IF t = "eph" THEN {} ELSE eph
                /\ eph_tree' = IF t = "eph_tree" THEN {} ELSE eph_tree
                /\ obs' = IF t = "obs" THEN {} ELSE obs
                /\ obs_tree' = IF t = "obs_tree" THEN {} ELSE obs_tree
                /\ obs_found' = IF t = "obs_found" THEN {} ELSE obs_found
                /\ last' = Stmt("drop_table", TRUE, 0)
           ELSE /\ last' = Stmt("drop_table", FALSE, 0)
                /\ UNCHANGED dbvars
    /\ UNCHANGED <<foreign_keys, call>>

(***************************************************************************)
(* Spec: the row operations on an intact schema.  SpecSchema: the same with *)
(* tables dropped and the schema created again.                             *)
(***************************************************************************)
NextRows ==
    \/ \E o \in ObjIds : InsertObj(o)
    \/ \E e \in EphIds, o \in ObjIds : InsertEph(e, o)
    \/ \E e \in EphIds, b \in Boxes : InsertEphBox(e, b)
    \/ \E s \in ObsIds, b \in Boxes : InsertObs(s, b)
    \/ \E s \in ObsIds, b \in Boxes : InsertObsBox(s, b)
    \/ \E f \in FoundIds, o \in ObjIds, s \in ObsIds : InsertFound(f, o, s)
    \/ \E gone \in SUBSET eph : DeleteEph(gone)
    \/ \E o \in ObjIds : DeleteObj(o)
    \/ \E s \in ObsIds : DeleteObs(s)
    \/ CreateSchema

Spec == InitDB /\ [][NextRows]_vars

NextSchema ==
    \/ NextRows
    \/ \E t \in AllTables : DropTable(t)

SpecSchema == InitDB /\ [][NextSchema]_vars

(***************************************************************************)
(* util.py computes with floats. The model computes exactly, in the field   *)
(* Q(sqrt 2, sqrt 3), which holds the sine and cosine of every multiple of  *)
(* 15 degrees: a number is <<a, b, c, e, d>>, standing for                  *)
(*     (a + b*sqrt(2) + c*sqrt(3) + e*sqrt(6)) / d      with d > 0,         *)
(* in lowest terms. d = 0 is NaN, which every operation propagates as IEEE  *)
(* arithmetic does; d < 0 marks a value that is not on the 15-degree grid   *)
(* (the model draws only inputs for which no such value arises). Angles are *)
(* numbers in units of 15 degrees. Where the code names an intermediate     *)
(* value that it uses more than once, the model passes it as the parameter  *)
(* of that name to an operator that holds the rest of the computation.      *)
(***************************************************************************)
NaN == <<0, 0, 0, 0, 0>>
OffGrid == <<0, 0, 0, 0, -1>>
Zero == <<0, 0, 0, 0, 1>>
One == <<1, 0, 0, 0, 1>>

IsNaN(x) == x[5] = 0
IsOff(x) == x[5] < 0

Abs(n) == IF n < 0 THEN -n ELSE n

RECURSIVE Gcd(_, _)
Gcd(m, n) == IF n = 0 THEN m ELSE Gcd(n, m % n)

LowestTerms(a, b, c, e, d, g) ==
    <<a \div g, b \div g, c \div g, e \div g, d \div g>>

\* (a + b r2 + c r3 + e r6)/d with d > 0, in lowest terms
Norm(a, b, c, e, d) ==
    LowestTerms(a, b, c, e, d,
                Gcd(Gcd(Gcd(Abs(a), Abs(b)), Gcd(Abs(c), Abs(e))), d))

\* n/d for integers n and d # 0
Rat(n, d) == IF d < 0 THEN Norm(-n, 0, 0, 0, -d) ELSE Norm(n, 0, 0, 0, d)

\* What an operation gives for operands that are no numbers.
Special(x, y) == IF IsOff(x) \/ IsOff(y) THEN OffGrid ELSE NaN
IsSpecial(x, y) == x[5] <= 0 \/ y[5] <= 0

Neg(x) == <<-x[1], -x[2], -x[3], -x[4], x[5]>>

Add(x, y) ==
    IF IsSpecial(x, y) THEN Special(x, y)
    ELSE Norm(x[1] * y[5] + y[1] * x[5], x[2] * y[5] + y[2] * x[5],
              x[3] * y[5] + y[3] * x[5], x[4] * y[5] + y[4] * x[5],
              x[5] * y[5])

Sub(x, y) == Add(x, Neg(y))

Mul(x, y) ==
    IF IsSpecial(x, y) THEN Special(x, y)
    ELSE Norm(x[1] * y[1] + 2 * x[2] * y[2] + 3 * x[3] * y[3]
                  + 6 * x[4] * y[4],
              x[1] * y[2] + x[2] * y[1] + 3 * (x[3] * y[4] + x[4] * y[3]),
              x[1] * y[3] + x[3] * y[1] + 2 * (x[2] * y[4] + x[4] * y[2]),
              x[1] * y[4] + x[4] * y[1] + x[2] * y[3] + x[3] * y[2],
              x[5] * y[5])

\* The sign of p + q*sqrt(2)
Sign2(p, q) ==
    IF p >= 0 /\ q >= 0 THEN (IF p = 0 /\ q = 0 THEN 0 ELSE 1)
    ELSE IF p <= 0 /\ q <= 0 THEN -1
    ELSE IF p > 0 THEN (IF p * p > 2 * q * q THEN 1 ELSE -1)
    ELSE (IF 2 * q * q > p * p THEN 1 ELSE -1)

\* Of x = (A + B*sqrt(3))/d, with A and B in Z[sqrt 2]: A*A - 3*B*B is
\* NormP(x) + NormQ(x)*sqrt(2)
NormP(x) ==
    x[1] * x[1] + 2 * x[2] * x[2] - 3 * (x[3] * x[3] + 2 * x[4] * x[4])
NormQ(x) == 2 * x[1] * x[2] - 6 * x[3] * x[4]

\* The sign of A + B*sqrt(3) from the signs of A, of B and of A*A - 3*B*B
Sign3(sA, sB, sN) ==
    IF sB = 0 THEN sA
    ELSE IF sA = 0 \/ sA = sB THEN sB
    ELSE sA * sN

\* The sign of a number
Sign(x) ==
    Sign3(Sign2(x[1], x[2]), Sign2(x[3], x[4]), Sign2(NormP(x), NormQ(x)))

IsZero(x) == x[5] > 0 /\ x[1] = 0 /\ x[2] = 0 /\ x[3] = 0 /\ x[4] = 0

\* Comparisons: false when an operand is NaN
Lt(x, y) == ~IsSpecial(x, y) /\ Sign(Sub(x, y)) < 0
Le(x, y) == ~IsSpecial(x, y) /\ Sign(Sub(x, y)) <= 0

\* 1/x by conjugates, p + q*sqrt(2) being A*A - 3*B*B
Conjugates(x, p, q) ==
    Mul(Mul(<<x[1], x[2], -x[3], -x[4], 1>>, <<p, -q, 0, 0, 1>>),
        Rat(x[5], p * p - 2 * q * q))

\* 0/0 is NaN, as in numpy's division of the zero vector by its length
Inv(x) ==
    IF x[5] <= 0 THEN x
    ELSE IF IsZero(x) THEN NaN
    ELSE Conjugates(x, NormP(x), NormQ(x))

Div(x, y) == Mul(x, Inv(y))

IsInt(x) == x[5] = 1 /\ x[2] = 0 /\ x[3] = 0 /\ x[4] = 0

(***************************************************************************)
(* Trigonometry on the grid. Turn is 360 degrees in units of 15 degrees.    *)
(***************************************************************************)
Turn == 24

\* cos(k * 15 deg) for k = 0..6:
\* 1, (r2 + r6)/4, r3/2, r2/2, 1/2, (r6 - r2)/4, 0
CosTable ==
    <<<<1, 0, 0, 0, 1>>, <<0, 1, 0, 1, 4>>, <<0, 0, 1, 0, 2>>,
      <<0, 1, 0, 0, 2>>, <<1, 0, 0, 0, 2>>, <<0, -1, 0, 1, 4>>,
      <<0, 0, 0, 0, 1>>>>

\* cos of f * 15 deg for f in 0..12
CosHalfTurn(f) ==
    IF f <= Turn \div 4 THEN CosTable[f + 1]
    ELSE Neg(CosTable[Turn \div 2 - f + 1])

\* cos is even: m in 0..23 folds to 0..12
FoldTurn(m) == IF m > Turn \div 2 THEN Turn - m ELSE m

CosK(k) == CosHalfTurn(FoldTurn(k % Turn))

SinK(k) == CosK(k - Turn \div 4)

\* np.cos, np.sin of an angle
Cos(th) ==
    IF th[5] <= 0 THEN th
    ELSE IF ~IsInt(th) THEN OffGrid
    ELSE CosK(th[1])

Sin(th) ==
    IF th[5] <= 0 THEN th
    ELSE IF ~IsInt(th) THEN OffGrid
    ELSE SinK(th[1])

\* The one grid value of a set of candidates, if there is one
OnlyGrid(ks) == IF ks = {} THEN OffGrid ELSE CHOOSE k \in ks : TRUE

\* np.sqrt of a number that is the square of a cosine of the grid
Sqrt(x) ==
    IF x[5] <= 0 THEN x
    ELSE OnlyGrid({CosTable[k] : k \in {n \in 1..Len(CosTable) :
                                    Mul(CosTable[n], CosTable[n]) = x}})

\* np.arctan2(y, x), in (-180, 180] degrees; arctan2(0, 0) = 0
Arctan2(y, x) ==
    IF IsSpecial(y, x) THEN Special(y, x)
    ELSE IF IsZero(x) /\ IsZero(y) THEN Zero
    ELSE OnlyGrid({Rat(k, 1) : k \in
             {n \in (1 - Turn \div 2)..(Turn \div 2) :
                 /\ IsZero(Sub(Mul(x, SinK(n)), Mul(y, CosK(n))))
                 /\ Sign(Add(Mul(x, CosK(n)), Mul(y, SinK(n)))) > 0}})

\* np.hypot
Hypot(x, y) == Sqrt(Add(Mul(x, x), Mul(y, y)))

\* Angle.wrap_at(360 deg) of a grid angle: into [0, 360)
Wrap360(th) ==
    IF th[5] <= 0 THEN th
    ELSE IF ~IsInt(th) THEN OffGrid
    ELSE <<th[1] % Turn, 0, 0, 0, 1>>

(***************************************************************************)
(* util.py: coordinates, rotation and interpolation. A SkyCoord is a record *)
(* [ra, dec] of angles, ra in [0, 360) degrees; a vector is a triple.       *)
(***************************************************************************)
SkyCoord(ra, dec) == [ra |-> Wrap360(ra), dec |-> dec]

rd2xyz(ra, dec) ==
    <<Mul(Cos(dec), Cos(ra)), Mul(Cos(dec), Sin(ra)), Sin(dec)>>

sc2xyz(sc) ==
    <<Mul(Cos(sc.dec), Cos(sc.ra)), Mul(Cos(sc.dec), Sin(sc.ra)), Sin(sc.dec)>>

\* np.cross
cross(a, b) ==
    <<Sub(Mul(a[2], b[3]), Mul(a[3], b[2])),
      Sub(Mul(a[3], b[1]), Mul(a[1], b[3])),
      Sub(Mul(a[1], b[2]), Mul(a[2], b[1]))>>

\* (a * b).sum()
dot(a, b) == Add(Add(Mul(a[1], b[1]), Mul(a[2], b[2])), Mul(a[3], b[3]))

\* array * scalar, array + array
scale(a, k) == <<Mul(a[1], k), Mul(a[2], k), Mul(a[3], k)>>
vadd(a, b) == <<Add(a[1], b[1]), Add(a[2], b[2]), Add(a[3], b[3])>>

\* astropy's angular_separation (Vincenty formula) from the sines and
\* cosines of the latitudes and of the difference of the longitudes
angular_separation(slat1, clat1, slat2, clat2, sdlon, cdlon) ==
    Arctan2(Hypot(Mul(clat2, sdlon),
                  Sub(Mul(clat1, slat2), Mul(Mul(slat1, clat2), cdlon))),
            Add(Mul(slat1, slat2), Mul(Mul(clat1, clat2), cdlon)))

\* SkyCoord.separation
separation(c0, c1) ==
    angular_separation(Sin(c0.dec), Cos(c0.dec), Sin(c1.dec), Cos(c1.dec),
                       Sin(Sub(c1.ra, c0.ra)), Cos(Sub(c1.ra, c0.ra)))

\* A sign error in the last term turns the rotation the other way.
vector_rotate_mut(r, n, th) ==
    vadd(vadd(scale(r, Cos(Neg(th))),
              scale(n, Mul(dot(n, r), Sub(One, Cos(Neg(th)))))),
         scale(cross(r, n), Sin(th)))

vector_rotate(r, n, th) ==
    vadd(vadd(scale(r, Cos(Neg(th))),
              scale(n, Mul(dot(n, r), Sub(One, Cos(Neg(th)))))),
         scale(cross(r, n), Sin(Neg(th))))

\* astropy's cartesian_to_spherical, s being hypot(x, y):
\* <<distance, latitude, longitude>>
spherical_of(c, s) ==
    <<Hypot(s, c[3]), Arctan2(c[3], s), Wrap360(Arctan2(c[2], c[1]))>>

cartesian_to_spherical(c) == spherical_of(c, Hypot(c[1], c[2]))

\* Line 197: n /= np.sqrt((n**2).sum())
normalized(n) == scale(n, Inv(Sqrt(dot(n, n))))

\* Line 201, of the <<d, dec, ra>> of line 200
SkyCoordOf(sph) == SkyCoord(sph[3], sph[2])

\* Lines 196-201, from a = sc2xyz(c0), b = sc2xyz(c1) and th = w * dt
interpolated(a, b, th) ==
    SkyCoordOf(cartesian_to_spherical(
        vector_rotate(a, normalized(cross(a, b)), th)))

spherical_interpolation(c0, c1, t0, t1, t2) ==
    interpolated(sc2xyz(c0), sc2xyz(c1),
                 Mul(separation(c0, c1), Div(Sub(t2, t0), Sub(t1, t0))))

OnGrid(sc) == ~IsOff(sc.ra) /\ ~IsOff(sc.dec)

(***************************************************************************)
(* Calls of spherical_interpolation. The arguments are drawn from the grid; *)
(* the call returns when every intermediate value is on the grid. Exact     *)
(* arithmetic gives arctan2(0, 0) = 0 for the longitude of a pole, where    *)
(* the floats of the code give the arctan2 of rounding noise: positions are *)
(* compared by SamePosition, which ignores the longitude of a pole.         *)
(***************************************************************************)
MaxT == 2

Times == {<<n, 0, 0, 0, 1>> : n \in 0..MaxT}

Coord(r, d) == [ra |-> <<r % Turn, 0, 0, 0, 1>>, dec |-> <<d, 0, 0, 0, 1>>]

InterpFrom ==
    {Coord(21, 3), Coord(0, 0), Coord(0, 6), Coord(4, -2), Coord(12, 0),
     Coord(6, 2)}
InterpTo ==
    {Coord(r, d) : r \in 0..(Turn - 1), d \in {-6, -3, -2, 0, 2, 3, 6}}

InitInterp ==
    /\ InitTables
    /\ foreign_keys = FALSE
    /\ \E c0 \in InterpFrom, c1 \in InterpTo, t0 \in Times, t1 \in Times,
          t2 \in Times :
          /\ t0 # t1
          /\ call = [fn |-> "spherical_interpolation",
                     args |-> <<c0, c1, t0, t1, t2>>,
                     ret |-> c0, done |-> FALSE]

CallSphericalInterpolation ==
    /\ call.fn = "spherical_interpolation"
    /\ ~call.done
    /\ \E c2 \in {spherical_interpolation(call.args[1], call.args[2],
                                          call.args[3], call.args[4],
                                          call.args[5])} :
          /\ OnGrid(c2)
          /\ call' = [call EXCEPT !.ret = c2, !.done = TRUE]
    /\ UNCHANGED <<dbvars, foreign_keys, last>>

SpecInterp == InitInterp /\ [][CallSphericalInterpolation]_vars

Pole(c) == Abs(c.dec[1]) = Turn \div 4 /\ IsInt(c.dec)

SamePosition(c, d) == c.dec = d.dec /\ (Pole(c) \/ c.ra = d.ra)

Antipodal(c, d) == sc2xyz(c) = scale(sc2xyz(d), Neg(One))

\* m is the midpoint of the short great-circle arc from c to d: its vector
\* is along the sum of theirs.
AlongVector(m, sum) ==
    /\ \A i \in 1..3 : IsZero(cross(m, sum)[i])
    /\ Sign(dot(m, sum)) > 0

IsArcMidpoint(m, c, d) == AlongVector(sc2xyz(m), vadd(sc2xyz(c), sc2xyz(d)))

(***************************************************************************)
(* eph_to_limits. Python passes arguments by position and checks no types:  *)
(* an argument is a list of floats [type |-> "list", v |-> <<..>>] or a     *)
(* SkyCoord array [type |-> "SkyCoord", v |-> <<..>>]; half_step is a       *)
(* Quantity [value, unit]. The result is [raised, value]: the exception     *)
(* raised ("none" when the function returns) and the tuple returned.        *)
(* Sequences are 1-based here: jd[1] of the code is jd.v[2].                *)
(***************************************************************************)
List(v) == [type |-> "list", v |-> v]
SkyCoords(v) == [type |-> "SkyCoord", v |-> v]
Quantity(value, unit) == [value |-> value, unit |-> unit]

\* half_step.to('day').value
to_day(q) ==
    IF q.unit = "hour" THEN Div(q.value, <<24, 0, 0, 0, 1>>) ELSE q.value

\* The builtins min and max: the first element no later one is < (or >).
\* A value off the grid cannot be compared.
RECURSIVE PyMin(_, _, _)
PyMin(x, k, m) ==
    IF k > Len(x) THEN m
    ELSE IF IsOff(x[k]) \/ IsOff(m) THEN OffGrid
    ELSE PyMin(x, k + 1, IF Lt(x[k], m) THEN x[k] ELSE m)

RECURSIVE PyMax(_, _, _)
PyMax(x, k, m) ==
    IF k > Len(x) THEN m
    ELSE IF IsOff(x[k]) \/ IsOff(m) THEN OffGrid
    ELSE PyMax(x, k + 1, IF Lt(m, x[k]) THEN x[k] ELSE m)

min(x) == PyMin(x, 2, x[1])
max(x) == PyMax(x, 2, x[1])

Returns(value) == [raised |-> "none", value |-> value]
Raises(exc) == [raised |-> exc, value |-> <<>>]

\* Line 71: x, y, z = list(zip(*[...])); here the i-th of them
Unzip(xyz, i) == [k \in 1..Len(xyz) |-> xyz[k][i]]

\* Line 72, of the vectors of a, b and c
limits_of(jda, jdc, xyz) ==
    Returns(<<jda, jdc,
              min(Unzip(xyz, 1)), max(Unzip(xyz, 1)),
              min(Unzip(xyz, 2)), max(Unzip(xyz, 2)),
              min(Unzip(xyz, 3)), max(Unzip(xyz, 3))>>)

\* Lines 68-72
limits_between(jd, ephem, jda, jdc) ==
    limits_of(jda, jdc,
        <<sc2xyz(spherical_interpolation(ephem.v[1], ephem.v[2],
                                         jd.v[1], jd.v[2], jda)),
          sc2xyz(ephem.v[2]),
          sc2xyz(spherical_interpolation(ephem.v[2], ephem.v[3],
                                         jd.v[2], jd.v[3], jdc))>>)

\* jd[1] - float is a TypeError when jd is a SkyCoord (line 66).
eph_to_limits(jd, ephem, half_step) ==
    IF jd.type # "list" THEN Raises("TypeError")
    ELSE limits_between(jd, ephem, Sub(jd.v[2], to_day(half_step)),
                        Add(jd.v[2], to_day(half_step)))

\* JD 2400000.5, the epoch of MJD
MJD0 == <<4800001, 0, 0, 0, 2>>

\* Sample spacings in days
Steps == {1, 4}
Epochs == {Zero, MJD0}
JdLists ==
    {List(<<e, Add(e, <<h, 0, 0, 0, 1>>), Add(e, <<2 * h, 0, 0, 0, 1>>)>>) :
        e \in Epochs, h \in Steps}
HalfSteps ==
    {Quantity(<<1, 0, 0, 0, 2>>, "day"), Quantity(<<12, 0, 0, 0, 1>>, "hour"),
     Quantity(<<1, 0, 0, 0, 1>>, "day"), Quantity(<<2, 0, 0, 0, 1>>, "day")}
EphCoords ==
    {Coord(0, -6), Coord(0, 0), Coord(0, 6), Coord(8, 0), Coord(16, 0),
     Coord(1, 0), Coord(5, 0), Coord(9, 0), Coord(3, 3)}
Ephemerides ==
    {SkyCoords(<<a, b, c>>) : a \in EphCoords, b \in EphCoords,
                               c \in EphCoords}

\* Arguments in the order of the signature (jd, eph, half_step), and in the
\* order test_eph_to_limits passes them (eph, jd, half_step).
InitLimits ==
    /\ InitTables
    /\ foreign_keys = FALSE
    /\ \E jd \in JdLists, ephem \in Ephemerides, half_step \in HalfSteps :
          \/ call = [fn |-> "eph_to_limits",
                     args |-> <<jd, ephem, half_step>>,
                     ret |-> Raises("none"), done |-> FALSE]
          \/ call = [fn |-> "eph_to_limits",
                     args |-> <<ephem, jd, half_step>>,
                     ret |-> Raises("none"), done |-> FALSE]

CallEphToLimits ==
    /\ call.fn = "eph_to_limits"
    /\ ~call.done
    /\ \E r \in {eph_to_limits(call.args[1], call.args[2], call.args[3])} :
          /\ \A k \in 1..Len(r.value) : ~IsOff(r.value[k])
          /\ call' = [call EXCEPT !.ret = r, !.done = TRUE]
    /\ UNCHANGED <<dbvars, foreign_keys, last>>

SpecLimits == InitLimits /\ [][CallEphToLimits]_vars

(***************************************************************************)
(* interior_test. A position angle is kept as its direction <<x, y>>, the   *)
(* two arguments of the arctan2 that astropy takes: the angle is            *)
(* arctan2(y, x) in [0, 360) degrees, 0 to the north and 90 to the east.    *)
(* Directions are ordered exactly, by half-turn and then by cross product.  *)
(* A wrapped angle is [turn, dir]: turn = -1 for an angle that wrap_at has  *)
(* moved down by 360 degrees.                                               *)
(***************************************************************************)
\* arctan2(0, 0) = 0 is the direction north
Direction(x, y) == IF IsZero(x) /\ IsZero(y) THEN <<One, Zero>> ELSE <<x, y>>

\* SkyCoord.position_angle
position_angle(c0, c1) ==
    Direction(Sub(Mul(Sin(c1.dec), Cos(c0.dec)),
                  Mul(Mul(Cos(c1.dec), Sin(c0.dec)),
                      Cos(Sub(c1.ra, c0.ra)))),
              Mul(Sin(Sub(c1.ra, c0.ra)), Cos(c1.dec)))

\* 0 for an angle in [0, 180), 1 for an angle in [180, 360), from the signs
\* of y and x
HalfOf(sy, sx) == IF sy > 0 \/ (sy = 0 /\ sx >= 0) THEN 0 ELSE 1

HalfTurn(a) == HalfOf(Sign(a[2]), Sign(a[1]))

\* a < b for angles in [0, 360) in the half-turns ha and hb
AngLtIn(ha, hb, a, b) ==
    IF ha # hb THEN ha < hb
    ELSE Sign(Sub(Mul(a[1], b[2]), Mul(a[2], b[1]))) > 0

AngLt(a, b) == AngLtIn(HalfTurn(a), HalfTurn(b), a, b)

\* Angle.wrap_at(w) for a and w in [0, 360): into [w - 360, w)
wrap_at(a, w) == [turn |-> IF AngLt(a, w) THEN 0 ELSE -1, dir |-> a]

\* a < b for wrapped angles
WrappedLt(a, b) ==
    IF a.turn # b.turn THEN a.turn < b.turn ELSE AngLt(a.dir, b.dir)

\* The cosine of the separation: the larger, the closer
SepCos(c0, c1) ==
    Add(Mul(Sin(c0.dec), Sin(c1.dec)),
        Mul(Mul(Cos(c0.dec), Cos(c1.dec)), Cos(Sub(c1.ra, c0.ra))))

\* argsort of separations given by their cosines: nearest first, equal
\* separations in the order given
Before(cosines, a, b) ==
    \/ Lt(cosines[b], cosines[a])
    \/ ~Lt(cosines[a], cosines[b]) /\ a < b

argsort(cosines) ==
    [n \in 1..Len(cosines) |->
        CHOOSE a \in 1..Len(cosines) :
            Cardinality({b \in 1..Len(cosines) \ {a} :
                            Before(cosines, b, a)}) = n - 1]

\* Lines 132 and 141, of the sorted pa and pa_test
between(pa0, pa1, pa_test) ==
    ~(WrappedLt(pa_test, pa0) \/ WrappedLt(pa1, pa_test))

\* Lines 129 and 138: pa.sort()
sorted_between(pa0, pa1, pa_test) ==
    IF WrappedLt(pa1, pa0) THEN between(pa1, pa0, pa_test)
    ELSE between(pa0, pa1, pa_test)

\* Lines 128, 131 and 137, 140: wrap_at(wrap)
wrapped_between(pa0, pa1, pa_test, wrap) ==
    sorted_between(wrap_at(pa0, wrap), wrap_at(pa1, wrap),
                   wrap_at(pa_test, wrap))

\* Lines 127 and 136: wrap = pa.min()
pa_between(pa0, pa1, pa_test) ==
    wrapped_between(pa0, pa1, pa_test, IF AngLt(pa1, pa0) THEN pa1 ELSE pa0)

\* Lines 126-133 and 135-142: is the position angle of the point from
\* corner c between those of the corners ci and cj?
WedgeTest(c, ci, cj, point) ==
    pa_between(position_angle(c, ci), position_angle(c, cj),
               position_angle(c, point))

\* Lines 126-144, i, j, k being the indices of line 124 (1-based here)
interior_by(point, corners, i, j, k) ==
    /\ WedgeTest(corners[1], corners[i], corners[j], point)
    /\ WedgeTest(corners[k], corners[i], corners[j], point)

\* Line 124: the order <<i, j, k>> - 1 of corners[1:] by separation
nearest_first(corners) ==
    argsort(<<SepCos(corners[1], corners[2]), SepCos(corners[1], corners[3]),
              SepCos(corners[1], corners[4])>>)

interior_ordered(point, corners, order) ==
    interior_by(point, corners, order[1] + 1, order[2] + 1, order[3] + 1)

\* corners[0] of the code is corners[1] here
interior_test(point, corners) ==
    interior_ordered(point, corners, nearest_first(corners))

\* Rectangles in RA and Dec, corners in order around the perimeter
Quads ==
    {<<Coord(0, 0), Coord(2, 0), Coord(2, 2), Coord(0, 2)>>,
     <<Coord(0, 0), Coord(4, 0), Coord(4, 2), Coord(0, 2)>>,
     <<Coord(0, 1), Coord(3, 1), Coord(3, 3), Coord(0, 3)>>}
\* A footprint that is not a rectangle: a parallelogram, around the perimeter
Sheared == <<Coord(0, 0), Coord(4, 0), Coord(5, 2), Coord(1, 2)>>
Points == {Coord(r, d) : r \in -1..5, d \in -1..4}
Orders == Permutations(1..4)

InitInterior ==
    /\ InitTables
    /\ foreign_keys = FALSE
    /\ \E q \in Quads \cup {Sheared}, o \in Orders, point \in Points :
          call = [fn |-> "interior_test",
                  args |-> <<point, [n \in 1..4 |-> q[o[n]]]>>,
                  ret |-> FALSE, done |-> FALSE]

CallInteriorTest ==
    /\ call.fn = "interior_test"
    /\ ~call.done
    /\ call' = [call EXCEPT !.ret = interior_test(call.args[1], call.args[2]),
                            !.done = TRUE]
    /\ UNCHANGED <<dbvars, foreign_keys, last>>

SpecInterior == InitInterior /\ [][CallInteriorTest]_vars

(***************************************************************************)
(* date_constraints. A Python value is None or a number: None is the empty  *)
(* tuple and the number n is <<n>>, so that 0 and None differ as they do in *)
(* Python. A constraint is the tuple <<expr, param>> of an SQL expression   *)
(* and its parameter.                                                       *)
(***************************************************************************)
MaxJd == 6
Jds == 0..MaxJd
None == <<>>
Float(n) == <<n>>
OptionalJds == {None} \cup {Float(n) : n \in Jds}

\* "if x" in place of "if x is not None": 0 has no truth value
IsNotNone_mut(x) == x # None /\ x # Float(0)

\* Lines 38 and 41: x is not None
IsNotNone(x) == x # None

date_constraints(jd_start, jd_stop) ==
    (IF IsNotNone(jd_start) THEN << <<"jd>=?", jd_start>> >> ELSE <<>>)
    \o (IF IsNotNone(jd_stop) THEN << <<"jd<=?", jd_stop>> >> ELSE <<>>)

\* What SQLite makes of a constraint for a row with the column value jd
Holds(constraint, jd) ==
    IF constraint[1] = "jd>=?" THEN jd >= constraint[2][1]
    ELSE IF constraint[1] = "jd<=?" THEN jd <= constraint[2][1]
    ELSE FALSE

\* WHERE c1 AND c2 ...: the row passes every constraint
Selected(constraints, jd) ==
    \A n \in 1..Len(constraints) : Holds(constraints[n], jd)

InitDates ==
    /\ InitTables
    /\ foreign_keys = FALSE
    /\ \E jd_start \in OptionalJds, jd_stop \in OptionalJds :
          call = [fn |-> "date_constraints", args |-> <<jd_start, jd_stop>>,
                  ret |-> <<>>, done |-> FALSE]

CallDateConstraints ==
    /\ call.fn = "date_constraints"
    /\ ~call.done
    /\ call' = [call EXCEPT !.ret = date_constraints(call.args[1], call.args[2]),
                            !.done = TRUE]
    /\ UNCHANGED <<dbvars, foreign_keys, last>>

SpecDates == InitDates /\ [][CallDateConstraints]_vars

(***************************************************************************)
(* assemble_sql. SQL text is a string. A Python list is an object that the  *)
(* caller and the function share: heap holds the contents of the lists that *)
(* exist, and a list is passed and returned as its index in heap.           *)
(***************************************************************************)
MaxConstraints == 3

\* sep.join(strings)
RECURSIVE join(_, _)
join(sep, strings) ==
    IF Len(strings) = 0 THEN ""
    ELSE IF Len(strings) = 1 THEN strings[1]
    ELSE strings[1] \o sep \o join(sep, Tail(strings))

\* "[p for p in params]": every parameter, None or not
NotNone_mut(params) == params

\* Line 31: [p for p in params if p is not None]
NotNone(params) == SelectSeq(params, IsNotNone)

\* list.extend(items) on the list at ref
extend(heap, ref, items) == [heap EXCEPT ![ref] = @ \o items]

\* The tuple returned and the lists afterwards
assemble_sql(cmd, parameters, constraints, heap) ==
    IF Len(constraints) > 0
    THEN [ret |-> <<cmd \o " WHERE " \o join(" AND ", Unzip(constraints, 1)),
                    parameters>>,
          heap |-> extend(heap, parameters, NotNone(Unzip(constraints, 2)))]
    ELSE [ret |-> <<cmd, parameters>>, heap |-> heap]

Cmds == {"SELECT * FROM table"}
ParameterLists == {<<>>, <<Float(3)>>}
ConstraintSet ==
    {<<"v > ?", Float(1)>>, <<"v < 2", None>>}
        \cup {date_constraints(Float(0), Float(2))[n] : n \in 1..2}
ConstraintLists ==
    UNION {[1..n -> ConstraintSet] : n \in 0..MaxConstraints}

InitSql ==
    /\ InitTables
    /\ foreign_keys = FALSE
    /\ \E cmd \in Cmds, parameters \in ParameterLists,
          constraints \in ConstraintLists :
          call = [fn |-> "assemble_sql", args |-> <<cmd, 1, constraints>>,
                  heap |-> <<parameters>>, ret |-> <<>>, done |-> FALSE]

CallAssembleSql ==
    /\ call.fn = "assemble_sql"
    /\ ~call.done
    /\ \E r \in {assemble_sql(call.args[1], call.args[2], call.args[3],
                              call.heap)} :
          call' = [call EXCEPT !.ret = r.ret, !.heap = r.heap, !.done = TRUE]
    /\ UNCHANGED <<dbvars, foreign_keys, last>>

SpecSql == InitSql /\ [][CallAssembleSql]_vars

(***************************************************************************)
(* iterate_over. The generator is a frame that runs when its consumer asks  *)
(* for the next row: pc is the line it is suspended at, rows the batch of   *)
(* line 150, n the position of the for loop in it, and yielded the rows     *)
(* handed to the consumer so far. The cursor is that of sqlite3: the rows   *)
(* of its result that are still to be fetched and its arraysize, the number *)
(* of rows that fetchmany() asks for. A row stands for its tuple of columns.*)
(***************************************************************************)
MaxRows == 3
MaxArraysize == 2
RowValues == {1, 2}
ResultSets == UNION {[1..n -> RowValues] : n \in 0..MaxRows}

Cursor(rows, arraysize) == [rows |-> rows, arraysize |-> arraysize]

Smaller(a, b) == IF a < b THEN a ELSE b

\* cursor.fetchmany(): the next arraysize rows, fewer when fewer are left
fetchmany(cursor) ==
    SubSeq(cursor.rows, 1, Smaller(cursor.arraysize, Len(cursor.rows)))

\* The cursor after it has delivered a batch
Fetched(cursor, batch) ==
    [cursor EXCEPT !.rows = SubSeq(@, Len(batch) + 1, Len(@))]

\* "for row in rows[:1]": only the first row of a batch
for_rows_mut(rows) == SubSeq(rows, 1, 1)

\* Line 153: the rows that "for row in rows" goes through
for_rows(rows) == rows

InitIter ==
    /\ InitTables
    /\ foreign_keys = FALSE
    /\ \E result \in ResultSets, arraysize \in 1..MaxArraysize :
          call = [fn |-> "iterate_over", args |-> <<result, arraysize>>,
                  cursor |-> Cursor(result, arraysize), pc |-> "fetchmany",
                  rows |-> <<>>, n |-> 0, yielded |-> <<>>, done |-> FALSE]

\* Lines 150-152, and line 153 entering the loop
FetchRows ==
    /\ call.fn = "iterate_over"
    /\ call.pc = "fetchmany"
    /\ \E rows \in {fetchmany(call.cursor)} :
          call' = IF Len(rows) = 0
                  THEN [call EXCEPT !.cursor = Fetched(@, rows),
                                    !.rows = rows, !.pc = "return",
                                    !.done = TRUE]
                  ELSE [call EXCEPT !.cursor = Fetched(@, rows),
                                    !.rows = for_rows(rows), !.n = 1,
                                    !.pc = "yield"]
    /\ UNCHANGED <<dbvars, foreign_keys, last>>

\* Line 154, and line 153 going on to the next row or leaving the loop
YieldRow ==
    /\ call.fn = "iterate_over"
    /\ call.pc = "yield"
    /\ call' = [call EXCEPT !.yielded = Append(@, call.rows[call.n]),
                            !.n = @ + 1,
                            !.pc = IF call.n < Len(call.rows) THEN "yield"
                                   ELSE "fetchmany"]
    /\ UNCHANGED <<dbvars, foreign_keys, last>>

NextIter == FetchRows \/ YieldRow

\* The consumer is a for loop, which asks for rows until the generator ends
SpecIter == InitIter /\ [][NextIter]_vars /\ WF_vars(NextIter)

(***************************************************************************)
(* Claims about the schema.                                                 *)
(***************************************************************************)

\* C1: a step that removes an obj row removes, in that same step, every eph
\* row of that object and every eph_tree row of those points, so that no eph
\* row with its objid and no index row of its points is left afterwards.
C1_DeleteObjectCascades ==
    [][\A o \in ObjIds :
          (o \in obj /\ o \notin obj') =>
              /\ ~HasKey(eph', "objid", o)
              /\ \A r \in eph :
                    r.objid = o => ~HasKey(eph_tree', "ephid", r.ephid)]_vars

\* An object was deleted and the cascade removed the boxes of two points.
C1_Witness ==
    /\ last = Stmt("delete_obj", TRUE, 2)
    /\ eph_tree = {}

\* C2: no found record references a missing Object or a missing Observation.
C2_FoundHasBothParents ==
    \A r \in obs_found : r.objid \in obj /\ r.obsid \in obs

\* C5: every eph_tree row has an eph row with its ephid, and every
\* {obs_table}_tree row has an observation row with its obsid.
C5_NoOrphanIndexRows ==
    /\ \A r \in eph_tree : HasKey(eph, "ephid", r.ephid)
    /\ \A r \in obs_tree : r.obsid \in obs

\* A point with a box was deleted while another point kept its box.
C5_Witness ==
    /\ last = Stmt("delete_eph", TRUE, 1)
    /\ eph_tree # {}
    /\ obs_tree # {}

\* C6: create() on a database that has every structure changes no table, no
\* trigger and no row; with a table missing it leaves all six tables and all
\* triggers present and keeps the rows of every table that was there.
C6_CreateIdempotent ==
    [][last'.op = "create" =>
          /\ tables' = AllTables
          /\ triggers' = AllTriggers
          /\ "obj" \in tables => obj' = obj
          /\ "eph" \in tables => eph' = eph
          /\ "eph_tree" \in tables => eph_tree' = eph_tree
          /\ "obs" \in tables => obs' = obs
          /\ "obs_tree" \in tables => obs_tree' = obs_tree
          /\ "obs_found" \in tables => obs_found' = obs_found
          /\ (tables = AllTables /\ triggers = AllTriggers)
                => UNCHANGED dbvars]_vars

\* create() has restored the dropped eph table: the index rows of its former
\* points, the objects and the observation are still there.
C6_Witness ==
    /\ last = Stmt("create", TRUE, 1)
    /\ eph = {}
    /\ eph_tree # {}
    /\ obj # {}
    /\ obs # {}

\* C7: no two eph_tree rows share an ephid and no two {obs_table}_tree rows
\* share an obsid, and an insert into either index for a key that is present
\* leaves that index as it was.
UniqueKey(rows, field) ==
    \A r1, r2 \in rows : r1[field] = r2[field] => r1 = r2

C7_AtMostOneIndexRow ==
    /\ [](UniqueKey(eph_tree, "ephid") /\ UniqueKey(obs_tree, "obsid"))
    /\ [][/\ (last'.op = "insert_eph_tree" /\ ~last'.ok)
                => eph_tree' = eph_tree
          /\ (last'.op = "insert_obs_tree" /\ ~last'.ok)
                => obs_tree' = obs_tree]_vars

\* A second box for a point that has one was rejected.
C7_Witness ==
    /\ last = Stmt("insert_eph_tree", FALSE, 0)
    /\ Cardinality(eph_tree) = MaxEph


(***************************************************************************)
(* Claims about spherical_interpolation.                                    *)
(***************************************************************************)
InterpReturned == call.fn = "spherical_interpolation" /\ call.done

\* C8: for distinct, non-antipodal c0 and c1 and t0 # t1,
\* spherical_interpolation returns c0 at t2 = t0, c1 at t2 = t1, and the
\* midpoint of the great-circle arc from c0 to c1 at t2 = (t0 + t1)/2.
C8_InterpolationEndpoints ==
    InterpReturned =>
        LET c0 == call.args[1]
            c1 == call.args[2]
            t0 == call.args[3]
            t1 == call.args[4]
            t2 == call.args[5]
        IN  (~SamePosition(c0, c1) /\ ~Antipodal(c0, c1) /\ t0 # t1) =>
                /\ t2 = t0 => SamePosition(call.ret, c0)
                /\ t2 = t1 => SamePosition(call.ret, c1)
                /\ Add(t2, t2) = Add(t0, t1)
                       => IsArcMidpoint(call.ret, c0, c1)

\* The call of test_spherical_interpolation at the midpoint, in units of 45
\* degrees instead of 0.1 rad: c0 = (-45, 45) deg, c1 = (45, -45) deg.
C8_Witness ==
    /\ InterpReturned
    /\ call.args = <<Coord(21, 3), Coord(3, -3), Zero, <<2, 0, 0, 0, 1>>, One>>
    /\ call.ret = Coord(0, 0)

\* C9: when c0 and c1 coincide, spherical_interpolation returns c0 for
\* every t2.
C9_DegenerateReturnsAnchor ==
    (InterpReturned /\ call.args[1] = call.args[2])
        => SamePosition(call.ret, call.args[1])


(***************************************************************************)
(* Claims about eph_to_limits.                                              *)
(***************************************************************************)
LimitsReturned == call.fn = "eph_to_limits" /\ call.done

\* The great-circle-interpolated position of the object at time t
PositionAt(jd, ephem, t) ==
    IF Le(t, jd.v[2])
    THEN spherical_interpolation(ephem.v[1], ephem.v[2], jd.v[1], jd.v[2], t)
    ELSE spherical_interpolation(ephem.v[2], ephem.v[3], jd.v[2], jd.v[3], t)

InBox(p, box) ==
    /\ Le(box[3], p[1]) /\ Le(p[1], box[4])
    /\ Le(box[5], p[2]) /\ Le(p[2], box[6])
    /\ Le(box[7], p[3]) /\ Le(p[3], box[8])

\* Times around the central epoch, every quarter of a day
TimesAround(t) == {Add(t, Rat(k, 4)) : k \in -8..8}

\* Consecutive samples that define a great circle
Moving(ephem) ==
    \A k \in 1..2 : /\ ~SamePosition(ephem.v[k], ephem.v[k + 1])
                    /\ ~Antipodal(ephem.v[k], ephem.v[k + 1])

\* C3: the box of eph_to_limits contains the interpolated position of the
\* object at every time t between its time bounds, not only at the three
\* points it is computed from.
C3_BoxConservative ==
    (LimitsReturned /\ call.ret.raised = "none" /\ Moving(call.args[2])) =>
        LET jd == call.args[1]
            ephem == call.args[2]
            box == call.ret.value
        IN  \A t \in TimesAround(jd.v[2]) :
                (Le(box[1], t) /\ Le(t, box[2])) =>
                    \A p \in {PositionAt(jd, ephem, t)} :
                        (OnGrid(p) /\ ~IsNaN(p.ra) /\ ~IsNaN(p.dec))
                            => InBox(sc2xyz(p), box)

\* C10: called as test_eph_to_limits calls it (eph, jd, half_step),
\* eph_to_limits returns the time bounds jd[1] -/+ half_step as MJD
\* (JD - 2400000.5) and, on each axis, the minimum and maximum over the two
\* interpolated points and the central sample.
C10_TestInvocation ==
    (LimitsReturned /\ call.args[1].type = "SkyCoord") =>
        LET ephem == call.args[1]
            jd == call.args[2]
            hs == to_day(call.args[3])
            t_lo == Sub(jd.v[2], hs)
            t_hi == Add(jd.v[2], hs)
            pts == {sc2xyz(PositionAt(jd, ephem, t_lo)), sc2xyz(ephem.v[2]),
                    sc2xyz(PositionAt(jd, ephem, t_hi))}
            box == call.ret.value
        IN  /\ call.ret.raised = "none"
            /\ box[1] = Sub(t_lo, MJD0)
            /\ box[2] = Sub(t_hi, MJD0)
            /\ \A i \in 1..3 :
                  /\ \E p \in pts : box[2 * i + 1] = p[i]
                  /\ \E p \in pts : box[2 * i + 2] = p[i]
                  /\ \A p \in pts : Le(box[2 * i + 1], p[i])
                                       /\ Le(p[i], box[2 * i + 2])


(***************************************************************************)
(* Claims about interior_test.                                              *)
(***************************************************************************)
InteriorReturned == call.fn = "interior_test" /\ call.done

\* C4: for the four corners of a convex quadrilateral and a point,
\* interior_test returns the same verdict for every order in which the
\* corners are given.
C4_OrderIndependent ==
    InteriorReturned =>
        \A o \in Orders :
            interior_test(call.args[1], [n \in 1..4 |-> call.args[2][o[n]]])
                = call.ret

\* No two corners are farther apart than corners p and q
MutuallyFarthest(corners, p, q) ==
    \A a \in 1..4, b \in 1..4 :
        Le(SepCos(corners[p], corners[q]), SepCos(corners[a], corners[b]))

\* The two interval tests from the ends p and q of a diagonal against the
\* two remaining corners r and s
DiagonalTest(point, corners, p, q, r, s) ==
    /\ WedgeTest(corners[p], corners[r], corners[s], point)
    /\ WedgeTest(corners[q], corners[r], corners[s], point)

\* C12: the verdict of interior_test is that of the two position-angle
\* interval tests (an angle equal to a corner's counts as between) made from
\* the two ends of a diagonal that is a pair of mutually farthest corners
\* among all six pairs, against the two remaining corners.
C12_FarthestDiagonal ==
    InteriorReturned =>
        \E o \in Orders :
            /\ MutuallyFarthest(call.args[2], o[1], o[2])
            /\ call.ret = DiagonalTest(call.args[1], call.args[2],
                                       o[1], o[2], o[3], o[4])

(***************************************************************************)
(* Claims about date_constraints.                                           *)
(***************************************************************************)
DatesReturned == call.fn = "date_constraints" /\ call.done

\* The constraints, in order, that name the given expression
WithExpr(constraints, expr) ==
    SelectSeq(constraints, LAMBDA c : c[1] = expr)

\* C11: date_constraints(jd_start, jd_stop) holds ('jd>=?', jd_start) iff
\* jd_start is not None (0 is a bound), ('jd<=?', jd_stop) iff jd_stop is not
\* None, the lower bound first and nothing else (the empty list when both
\* are None); a row is selected iff its jd is >= jd_start when that is given
\* and <= jd_stop when that is given, the bounds themselves included.
C11_DateConstraints ==
    DatesReturned =>
        LET jd_start == call.args[1]
            jd_stop == call.args[2]
            lower == WithExpr(call.ret, "jd>=?")
            upper == WithExpr(call.ret, "jd<=?")
        IN  /\ lower = (IF jd_start = None THEN <<>>
                        ELSE << <<"jd>=?", jd_start>> >>)
            /\ upper = (IF jd_stop = None THEN <<>>
                        ELSE << <<"jd<=?", jd_stop>> >>)
            /\ call.ret = lower \o upper
            /\ (jd_start = None /\ jd_stop = None => call.ret = <<>>)
            /\ \A jd \in Jds :
                  Selected(call.ret, jd) <=>
                      /\ (jd_start # None => jd >= jd_start[1])
                      /\ (jd_stop # None => jd <= jd_stop[1])

\* A lower bound of 0 and an upper bound have been given, and a row on the
\* upper bound is selected
C11_Witness ==
    /\ DatesReturned
    /\ call.args[1] = Float(0)
    /\ call.args[2] # None
    /\ Len(call.ret) = 2
    /\ Selected(call.ret, call.args[2][1])

(***************************************************************************)
(* Claims about assemble_sql.                                               *)
(***************************************************************************)
SqlReturned == call.fn = "assemble_sql" /\ call.done

\* The expressions of the first n constraints with ' AND ' between them
RECURSIVE JoinedWithAnd(_, _)
JoinedWithAnd(constraints, n) ==
    IF n = 1 THEN constraints[1][1]
    ELSE JoinedWithAnd(constraints, n - 1) \o " AND " \o constraints[n][1]

\* The constraints that have a parameter
WithParameter(constraints) ==
    {n \in 1..Len(constraints) : constraints[n][2] # None}

\* after is before followed by the parameters of the constraints that have
\* one, the k-th appended being that of the k-th such constraint
AppendedInOrder(before, after, constraints) ==
    /\ Len(after) = Len(before) + Cardinality(WithParameter(constraints))
    /\ SubSeq(after, 1, Len(before)) = before
    /\ \A n \in WithParameter(constraints) :
          after[Len(before)
                + Cardinality({m \in WithParameter(constraints) : m <= n})]
              = constraints[n][2]

\* C13: a call assemble_sql(cmd, parameters, constraints) returns the
\* caller's parameters list itself; with no constraints cmd and the list are
\* unchanged, otherwise the command is cmd, ' WHERE ', and the expressions
\* joined by ' AND ' in the order given, and the list has been extended in
\* place by the constraints' parameters in that order, every None left out.
C13_AssembleSql ==
    [][call.fn = "assemble_sql" /\ ~call.done /\ call'.done =>
        LET cmd == call.args[1]
            parameters == call.args[2]
            constraints == call.args[3]
        IN  /\ call'.ret[2] = parameters
            /\ Len(call'.heap) = Len(call.heap)
            /\ AppendedInOrder(call.heap[parameters], call'.heap[parameters],
                               constraints)
            /\ call'.ret[1] =
                  IF Len(constraints) = 0 THEN cmd
                  ELSE cmd \o " WHERE "
                           \o JoinedWithAnd(constraints, Len(constraints))]_vars

\* The call of test_assemble_sql has returned what the test expects
C13_Witness ==
    /\ SqlReturned
    /\ call.args[3] = << <<"v > ?", Float(1)>>, <<"v < 2", None>> >>
    /\ call.ret[1] = "SELECT * FROM table WHERE v > ? AND v < 2"
    /\ call.heap[call.ret[2]] = <<Float(1)>>

(***************************************************************************)
(* Claims about iterate_over.                                               *)
(***************************************************************************)
IterReturned == call.fn = "iterate_over" /\ call.pc = "return"

IsPrefix(a, b) == Len(a) <= Len(b) /\ SubSeq(b, 1, Len(a)) = a

\* C14: iterate_over yields the rows of the cursor in the order of its
\* batches, each once: what has been yielded is always the first rows of
\* the result, once the generator has returned it is the whole result, and
\* the generator does return, at the first empty batch, for every batch
\* size and every number of rows, zero included.
C14_YieldsEveryRowOnce ==
    /\ [](call.fn = "iterate_over" =>
            /\ IsPrefix(call.yielded, call.args[1])
            /\ (IterReturned =>
                  /\ call.yielded = call.args[1]
                  /\ call.rows = <<>>
                  /\ call.cursor.rows = <<>>))
    /\ <>IterReturned

\* Three rows in batches of two, the last batch short, have all been yielded
C14_Witness ==
    /\ IterReturned
    /\ Len(call.args[1]) = 3
    /\ call.args[2] = 2
    /\ Len(call.yielded) = 3

=============================================================================
